---------------------------- MODULE Spec2Model ----------------------------
(***************************************************************************)
(* Campaign optimization engine (src/optimizer.py) and its caller          *)
(* (src/app.py).                                                           *)
(*                                                                         *)
(* Units.  The source computes on IEEE-754 doubles; the model computes on  *)
(* integers in fixed units and states every rounding explicitly:           *)
(*   money (bidRate, effectiveBidFloor, highTier, bids)  mills, 0.001 $    *)
(*   KPI values and KPI targets                          0.01 %  (1e-4)    *)
(*   fillRate                                            whole percent     *)
(*   spend                                               whole dollars     *)
(* A missing number is NaN, a missing label is None.                       *)
(***************************************************************************)
EXTENDS Integers, Sequences, FiniteSets, TLC

VARIABLES
    pc,          \* position of run_optimization / of the caller
    cfg,         \* what the caller supplies: KPI targets and weights
    loaded,      \* the internal table as load_internal returns it
    advertiser,  \* the advertiser table as loaded
    internal,    \* the working table `internal` of run_optimization
    summary      \* the summary returned with the report, None before

vars == <<pc, cfg, loaded, advertiser, internal, summary>>

\* A missing numeric cell (NaN); every present number is >= 0.
NaN == -1

\* A missing label (Python's None).
None == "None"

----------------------------------------------------------------------------
(* Segmentation (STEP 2)                                                   *)

W_D7 == 80
W_D2ND == 20

\* weighted_score: w_d7 * roi_d7 + w_d2nd * roi_d2nd, weights in percent.
weighted_score(roi_d7, roi_d2nd, w_d7, w_d2nd) ==
    w_d7 * roi_d7 + w_d2nd * roi_d2nd

\* kpi_target: the same weighting of the two targets.
kpi_target(kpi_d7, kpi_d2nd, w_d7, w_d2nd) ==
    w_d7 * kpi_d7 + w_d2nd * kpi_d2nd

\* A variant of FracLeqPct that leaves the end of the band out; C14 tells
\* the two apart.
FracLeqPct_open(num, den, p) == 100 * num < p * den

\* (num / den) <= (p / 100), for den > 0, on the exact values.
FracLeqPct(num, den, p) == 100 * num <= p * den

\* (num / den) < (p / 100), for den > 0, on the exact values.
FracLtPct(num, den, p) == 100 * num < p * den

(* Comparisons of doubles.  A KPI value n of a row stands for the double   *)
(* parse_pct returns for the advertiser cell of n (RawCell below); a       *)
(* target n stands for the double n / 10000 the caller passes.             *)
(* weighted_score, kpi_target and the                                      *)
(* quotients pct_below and pct_above are computed on those doubles, so a   *)
(* row whose exact value lies on the end of a band can come out on either  *)
(* side of it.  The three sets below list every such row that comes out on *)
(* the other side than the exact value, for KPI values that are multiples  *)
(* of 50 up to 3000, or 211 or 5000, and the target pairs <<1000, 500>>,   *)
(* <<700, 1200>> and <<1000, 211>>.  On that domain no other comparison of *)
(* the source (pct_below < 1.0, pct_below <= 0.75, pct_above <= 0.25 and   *)
(* <= 0.50, roi_d2nd / roi_d7 >= 2.0, roi_d2nd against roi_d7) differs     *)
(* from the exact one.                                                     *)

\* <<roi_d7, roi_d2nd, kpi_d7, kpi_d2nd>> whose exact score equals the exact
\* target while the double score is below the double target.
ScoreUnderTarget ==
    {<<250, 3000, 700, 1200>>, <<400, 2400, 700, 1200>>,
     <<400, 2900, 1000, 500>>, <<450, 2200, 700, 1200>>,
     <<450, 2700, 1000, 500>>, <<500, 2500, 1000, 500>>,
     <<550, 1800, 700, 1200>>, <<550, 2300, 1000, 500>>,
     <<600, 1600, 700, 1200>>, <<600, 2100, 1000, 500>>,
     <<650, 1900, 1000, 500>>, <<700, 1700, 1000, 500>>,
     <<750, 1000, 700, 1200>>, <<750, 1500, 1000, 500>>,
     <<800, 800, 700, 1200>>, <<800, 1300, 1000, 500>>,
     <<850, 600, 700, 1200>>, <<850, 1100, 1000, 500>>,
     <<900, 400, 700, 1200>>, <<900, 900, 1000, 500>>,
     <<950, 700, 1000, 500>>, <<1050, 300, 1000, 500>>,
     <<1100, 100, 1000, 500>>}

\* <<roi_d7, roi_d2nd, kpi_d7, kpi_d2nd, p>> whose exact pct_below is p / 100
\* while the double pct_below is above the double p / 100.
PctBelowOver ==
    {<<0, 2250, 1000, 500, 50>>, <<0, 3000, 700, 1200, 25>>,
     <<50, 1800, 700, 1200, 50>>, <<50, 2050, 1000, 500, 50>>,
     <<100, 1600, 700, 1200, 50>>, <<100, 1850, 1000, 500, 50>>,
     <<100, 2600, 700, 1200, 25>>, <<150, 1650, 1000, 500, 50>>,
     <<150, 2400, 700, 1200, 25>>, <<200, 1200, 700, 1200, 50>>,
     <<200, 1450, 1000, 500, 50>>, <<200, 2200, 700, 1200, 25>>,
     <<250, 1250, 1000, 500, 50>>, <<300, 800, 700, 1200, 50>>,
     <<300, 1050, 1000, 500, 50>>, <<300, 1800, 700, 1200, 25>>,
     <<350, 850, 1000, 500, 50>>, <<350, 1600, 700, 1200, 25>>,
     <<400, 400, 700, 1200, 50>>, <<400, 650, 1000, 500, 50>>,
     <<400, 1400, 700, 1200, 25>>, <<450, 200, 700, 1200, 50>>,
     <<450, 450, 1000, 500, 50>>, <<450, 1200, 700, 1200, 25>>,
     <<550, 50, 1000, 500, 50>>, <<550, 800, 700, 1200, 25>>,
     <<600, 600, 700, 1200, 25>>, <<650, 400, 700, 1200, 25>>,
     <<750, 0, 700, 1200, 25>>}

\* <<val, kpi>> of equal exact value where the double val is below the
\* double kpi: the cell '2.11%' is parsed to 0.021099999999999997.
ValueUnderTarget ==
    {<<211, 211>>}

\* score >= target as the source decides it (default weights).
ScoreGeqTarget(roi_d7, roi_d2nd, kpi_d7, kpi_d2nd) ==
    /\ weighted_score(roi_d7, roi_d2nd, W_D7, W_D2ND)
           >= kpi_target(kpi_d7, kpi_d2nd, W_D7, W_D2ND)
    /\ <<roi_d7, roi_d2nd, kpi_d7, kpi_d2nd>> \notin ScoreUnderTarget

\* pct_below <= p / 100 as the source decides it, for target > 0.
PctBelowLeq(roi_d7, roi_d2nd, kpi_d7, kpi_d2nd, p) ==
    LET score  == weighted_score(roi_d7, roi_d2nd, W_D7, W_D2ND)
        target == kpi_target(kpi_d7, kpi_d2nd, W_D7, W_D2ND)
    IN  /\ FracLeqPct(target - score, target, p)
        /\ <<roi_d7, roi_d2nd, kpi_d7, kpi_d2nd, p>> \notin PctBelowOver

\* segment_row: both helpers are called with their default weights.
segment_row(roi_d7, roi_d2nd, kpi_d7, kpi_d2nd) ==
    LET score  == weighted_score(roi_d7, roi_d2nd, W_D7, W_D2ND)
        target == kpi_target(kpi_d7, kpi_d2nd, W_D7, W_D2ND)
    IN  IF ScoreGeqTarget(roi_d7, roi_d2nd, kpi_d7, kpi_d2nd) THEN "green"
        ELSE IF roi_d7 = 0 /\ roi_d2nd = 0 THEN "red"
        ELSE IF PctBelowLeq(roi_d7, roi_d2nd, kpi_d7, kpi_d2nd, 50) THEN "yellow"
        ELSE IF FracLtPct(target - score, target, 100) THEN "orange"
        ELSE "red"

\* val >= kpi on the doubles the two values stand for.
ValueGeq(val, kpi) == val >= kpi /\ <<val, kpi>> \notin ValueUnderTarget

\* segment_single: one value against its own target.
segment_single(val, kpi) ==
    IF ValueGeq(val, kpi) THEN "green"
    ELSE IF val = 0 THEN "red"
    ELSE IF FracLeqPct(kpi - val, kpi, 50) THEN "yellow"
    ELSE IF FracLtPct(kpi - val, kpi, 100) THEN "orange"
    ELSE "red"

\* get_progression
get_progression(roi_d7, roi_d2nd) ==
    IF roi_d7 = 0 THEN "flat"
    ELSE IF roi_d2nd > roi_d7 THEN "good"
    ELSE IF roi_d2nd < roi_d7 THEN "poor"
    ELSE "flat"

----------------------------------------------------------------------------
(* Rounding.  round(x, 2) rounds the exact binary value of the double x.   *)
(* Where the decimal value is not halfway between two cents this is the    *)
(* nearest cent.  Where it is halfway, the double lies just above or just   *)
(* below the decimal value (or is exact, and Python rounds half to even):  *)
(* the two sets below list the halfway cases that come out upwards, for    *)
(* every value the model can draw.                                         *)

\* Inputs v (mills) with v % 10 = 5 for which round(v / 1000, 2) goes up.
InputTieUp ==
    {5, 25, 35, 55, 65, 85, 95, 115, 135, 165, 195, 225, 255, 265, 275,
     315, 325, 335, 375, 385, 395, 405, 445, 455, 465, 505, 515, 525, 535,
     545, 555}

\* <<bid, m>> with bid * m halfway for which round(bid * (m / 100), 2) goes
\* up, bid a multiple of 100 mills up to 1200.
ProductTieUp ==
    {<<100, 85>>, <<100, 75>>, <<300, 85>>, <<500, 75>>, <<900, 85>>,
     <<900, 75>>, <<1100, 85>>, <<1100, 75>>}

\* round(v, 2) of a money value v in mills; the result is in mills.
RoundMoney(v) ==
    LET q == v \div 10
        r == v % 10
    IN  10 * (IF r > 5 \/ (r = 5 /\ v \in InputTieUp) THEN q + 1 ELSE q)

\* round(bid * m, 2) for the factor m / 100 (1 + pct, 1 - pct, 0.90, ...).
RoundProduct(bid, m) ==
    LET x == bid * m
        q == x \div 1000
        r == x % 1000
    IN  10 * (IF r > 500 \/ (r = 500 /\ <<bid, m>> \in ProductTieUp)
              THEN q + 1 ELSE q)

Min(a, b) == IF a <= b THEN a ELSE b

\* value if pd.notna(value) else 0
OrZero(v) == IF v = NaN THEN 0 ELSE v

\* str.lower() on the status values the model draws.
lower(s) ==
    CASE s = "Paused" -> "paused"
      [] s = "PAUSED" -> "paused"
      [] s = "Active" -> "active"
      [] OTHER -> s

----------------------------------------------------------------------------
(* Discard logic (STEP 3)                                                  *)

\* A variant of should_discard that tests the spend threshold before the
\* two overrides; C6 tells the two apart.
should_discard_spend_first(row) ==
    LET is_green  == row.segment = "green"
        installs  == OrZero(row.installs)
        fill_rate == OrZero(row.fillRate)
    IN  IF row.spend < 100 THEN TRUE
        ELSE IF is_green /\ installs >= 5 THEN FALSE
        ELSE IF row.progression = "good" /\ fill_rate < 60 /\ row.roi_d7 > 0
        THEN FALSE
        ELSE IF row.preloads < 100 THEN TRUE
        ELSE IF lower(row.status) = "paused" /\ ~is_green THEN TRUE
        ELSE FALSE

should_discard(row) ==
    LET is_green    == row.segment = "green"
        installs    == OrZero(row.installs)
        spend       == row.spend
        preloads    == row.preloads
        progression == row.progression
        fill_rate   == OrZero(row.fillRate)
        d7          == row.roi_d7
    IN  IF is_green /\ installs >= 5 THEN FALSE
        ELSE IF progression = "good" /\ fill_rate < 60 /\ d7 > 0
                /\ spend >= 100 THEN FALSE
        ELSE IF spend < 100 THEN TRUE
        ELSE IF preloads < 100 THEN TRUE
        ELSE IF lower(row.status) = "paused" /\ ~is_green THEN TRUE
        ELSE FALSE

----------------------------------------------------------------------------
(* Daily cap logic (STEP 4)                                                *)

\* f'{cents / 100:.2f}'
Fmt2(cents) ==
    ToString(cents \div 100) \o "." \o ToString((cents % 100) \div 10)
        \o ToString(cents % 10)

\* round((spend / 30) * 0.50, 2) in cents: spend / 60 dollars is
\* 5 * spend / 3 cents, never halfway for a whole-dollar spend.
DailyCents(spend) ==
    LET n == 5 * spend
    IN  IF 2 * (n % 3) > 3 THEN n \div 3 + 1 ELSE n \div 3

\* A variant of get_daily_cap_suggestion that engages from a spend of
\* exactly 1000; C7 tells the two apart.
get_daily_cap_suggestion_from_1000(row) ==
    LET floor    == row.effectiveBidFloor
        at_floor == floor # NaN /\ row.bidRate <= floor
        has_perf == row.roi_d7 > 0 \/ row.roi_d2nd > 0
    IN  IF row.spend < 1000 THEN None
        ELSE IF ~has_perf THEN "Suggest pause"
        ELSE IF at_floor THEN "Add daily cap $" \o Fmt2(DailyCents(row.spend))
        ELSE None

get_daily_cap_suggestion(row) ==
    LET floor    == row.effectiveBidFloor
        bid      == row.bidRate
        at_floor == floor # NaN /\ bid <= floor
        has_perf == row.roi_d7 > 0 \/ row.roi_d2nd > 0
        no_perf  == row.roi_d7 = 0 /\ row.roi_d2nd = 0
    IN  IF row.spend <= 1000 THEN None
        ELSE IF no_perf THEN "Suggest pause"
        ELSE IF at_floor /\ has_perf
             THEN "Add daily cap $" \o Fmt2(DailyCents(row.spend))
        ELSE None

----------------------------------------------------------------------------
(* Bid optimization (STEP 5)                                               *)

\* f'Increase bid {int(pct*100)}%'
IncreaseLabel(pct) == "Increase bid " \o ToString(pct) \o "%"

\* f'Decrease bid {int(decrease_pct*100)}%'
DecreaseLabel(pct) == "Decrease bid " \o ToString(pct) \o "%"

\* apply_floor: <<bid, label>>, the label None when the floor did not bind.
apply_floor(floor, new_bid) ==
    IF floor # NaN /\ new_bid < floor
    THEN <<RoundMoney(floor), "Meet bid floor">>
    ELSE <<RoundMoney(new_bid), None>>

\* A variant of apply_high_tier whose override keeps the nominal percentage
\* in the label; C12 tells the two apart.
apply_high_tier_nominal_label(bid, high_tier, fill_rate, new_bid, pct) ==
    IF high_tier = NaN
    THEN <<RoundMoney(new_bid), IncreaseLabel(pct)>>
    ELSE IF bid > high_tier /\ fill_rate < 70
    THEN <<RoundProduct(bid, 115), IncreaseLabel(pct)>>
    ELSE <<RoundMoney(Min(new_bid, high_tier)), IncreaseLabel(pct)>>

\* apply_high_tier: <<bid, label>>.
apply_high_tier(bid, high_tier, fill_rate, new_bid, pct) ==
    IF high_tier = NaN
    THEN <<RoundMoney(new_bid), IncreaseLabel(pct)>>
    ELSE IF bid > high_tier /\ fill_rate < 70
    THEN <<RoundProduct(bid, 115), "Increase bid 15%">>
    ELSE <<RoundMoney(Min(new_bid, high_tier)), IncreaseLabel(pct)>>

\* The tail shared by the branches: floor_action wins, else the branch's own.
FloorOr(floor, action, new_bid) ==
    LET f == apply_floor(floor, new_bid)
    IN  IF f[2] # None THEN <<f[2], f[1]>> ELSE <<action, new_bid>>

\* An increase through apply_high_tier, then apply_floor.
TierThenFloor(bid, high_tier, fill_rate, floor, pct) ==
    LET t == apply_high_tier(bid, high_tier, fill_rate,
                             RoundProduct(bid, 100 + pct), pct)
    IN  FloorOr(floor, t[2], t[1])

\* optimize_bid below its two guards: the branches on progression and
\* segment, <<action, recommended bid>>.
bid_branches(row, kpi_d7, kpi_d2nd) ==
    LET floor     == row.effectiveBidFloor
        bid       == row.bidRate
        high_tier == row.highTier
        fill_rate == OrZero(row.fillRate)
        installs  == OrZero(row.installs)
        seg       == row.segment
        prog      == row.progression
        roi_d7    == row.roi_d7
        roi_d2nd  == row.roi_d2nd
        spend     == row.spend
        score     == weighted_score(roi_d7, roi_d2nd, W_D7, W_D2ND)
        target    == kpi_target(kpi_d7, kpi_d2nd, W_D7, W_D2ND)
        \* pct_above <= p / 100, with pct_above = 0 when target <= 0
        AboveLeq(p) == IF target > 0 THEN FracLeqPct(score - target, target, p)
                       ELSE TRUE
        \* pct_below <= p / 100, with pct_below = 1 when target <= 0
        BelowLeq(p) == IF target > 0
                       THEN PctBelowLeq(roi_d7, roi_d2nd, kpi_d7, kpi_d2nd, p)
                       ELSE 100 <= p
    IN  IF prog = "good" /\ fill_rate < 60 /\ roi_d7 > 0
        THEN TierThenFloor(bid, high_tier, fill_rate, floor,
                           IF roi_d2nd >= 2 * roi_d7 THEN 15 ELSE 10)
        ELSE IF prog = "poor"
        THEN IF spend < 100 THEN <<None, NaN>>
             ELSE IF segment_single(roi_d2nd, kpi_d2nd)
                         \in {"yellow", "orange", "red"}
             THEN FloorOr(floor, "Decrease bid 10%", RoundProduct(bid, 90))
             ELSE <<None, NaN>>
        ELSE IF seg = "green"
        THEN IF installs < 5 THEN <<None, NaN>>
             ELSE IF fill_rate > 80
             THEN FloorOr(floor, "Increase bid 15%",
                          IF high_tier # NaN
                          THEN RoundMoney(Min(RoundProduct(bid, 115), high_tier))
                          ELSE RoundProduct(bid, 115))
             ELSE TierThenFloor(bid, high_tier, fill_rate, floor,
                                IF fill_rate > 60 THEN 15
                                ELSE IF AboveLeq(25) THEN 10
                                ELSE IF AboveLeq(50) THEN 20
                                ELSE 30)
        ELSE IF seg = "yellow"
        THEN LET pct == IF BelowLeq(25) THEN 10 ELSE 15
             IN  FloorOr(floor, DecreaseLabel(pct), RoundProduct(bid, 100 - pct))
        ELSE IF seg = "orange"
        THEN LET pct == IF BelowLeq(75) THEN 20 ELSE 25
             IN  FloorOr(floor, DecreaseLabel(pct), RoundProduct(bid, 100 - pct))
        ELSE FloorOr(floor, "Decrease bid 30%", RoundProduct(bid, 70))

\* at_floor = floor is not None and bid <= floor
at_floor(row) == row.effectiveBidFloor # NaN /\ row.bidRate <= row.effectiveBidFloor

\* A bug the guards' order excludes: the at-floor guard left out.
optimize_bid_no_floor_guard(row, kpi_d7, kpi_d2nd) ==
    IF row.discard THEN <<None, NaN>>
    ELSE bid_branches(row, kpi_d7, kpi_d2nd)

\* optimize_bid: <<action, recommended bid>>.
optimize_bid(row, kpi_d7, kpi_d2nd) ==
    IF row.discard THEN <<None, NaN>>
    ELSE IF at_floor(row) THEN <<None, NaN>>
    ELSE bid_branches(row, kpi_d7, kpi_d2nd)

----------------------------------------------------------------------------
(* Data loading and preparation (STEP 1)                                   *)

\* EXCLUDED_SITE_PATTERNS, case-insensitive, on the names the model draws.
MatchesExcluded(name) == name \in {"OM Push", "om_push 3", "Notifications"}

\* exclude_site_types: <<kept rows, number excluded>>.
exclude_site_types(df) ==
    LET mask(r) == MatchesExcluded(r.siteName) \/ MatchesExcluded(r.campaignName)
        kept    == SelectSeq(df, LAMBDA r : ~mask(r))
    IN  <<kept, Len(df) - Len(kept)>>

\* str.strip() on the campaign names the model draws.
strip(s) ==
    CASE s = " alpha " -> "alpha"
      [] s = "beta "   -> "beta"
      [] OTHER -> s

\* build_key: campaignName.str.strip() + '_' + siteId.astype(int).astype(str)
build_key(campaignName, siteId) == strip(campaignName) \o "_" \o ToString(siteId)

\* A raw advertiser cell: <<"nan", 0>>, <<"text", 0>> (not a number) or
\* <<"num", h>>, the number h / 100 with or without a trailing '%'.
\* parse_pct gives the KPI in units of 0.01 %, or NaN.
parse_pct(val) ==
    IF val[1] = "nan" THEN NaN
    ELSE IF val[1] = "text" THEN NaN
    ELSE IF val[2] > 100 THEN val[2]
    ELSE 100 * val[2]

\* A variant of drop_duplicates that keeps the last row of every key; C10
\* tells the two apart.
RECURSIVE drop_duplicates_keep_last(_)
drop_duplicates_keep_last(df) ==
    IF df = << >> THEN << >>
    ELSE LET rest == Tail(df)
         IN  IF \E j \in 1..Len(rest) : rest[j].Key = Head(df).Key
             THEN drop_duplicates_keep_last(rest)
             ELSE << Head(df) >> \o drop_duplicates_keep_last(rest)

\* DataFrame.drop_duplicates('Key'): the first row of every key, in order.
RECURSIVE drop_duplicates(_)
drop_duplicates(df) ==
    IF df = << >> THEN << >>
    ELSE LET front == SubSeq(df, 1, Len(df) - 1)
             last  == df[Len(df)]
         IN  IF \E j \in 1..Len(front) : front[j].Key = last.Key
             THEN drop_duplicates(front)
             ELSE Append(drop_duplicates(front), last)

\* DataFrame.merge(lookup, on='Key', how='left'): every left row once per
\* matching lookup row, and once with NaN KPIs when none matches.
RECURSIVE left_merge(_, _)
left_merge(left, lookup) ==
    IF left = << >> THEN << >>
    ELSE LET r       == Head(left)
             matches == SelectSeq(lookup, LAMBDA a : a.Key = r.Key)
             joined  == IF matches = << >>
                        THEN << r @@ [roi_d7 |-> NaN, roi_d2nd |-> NaN] >>
                        ELSE [i \in 1..Len(matches) |->
                                 r @@ [roi_d7   |-> matches[i].roi_d7,
                                       roi_d2nd |-> matches[i].roi_d2nd]]
         IN  joined \o left_merge(Tail(left), lookup)

\* merge_advertiser_data
merge_advertiser_data(df, adv) ==
    LET parsed == [i \in 1..Len(adv) |->
                     [Key      |-> build_key(adv[i].campaignName, adv[i].siteId),
                      roi_d7   |-> parse_pct(adv[i].d7_raw),
                      roi_d2nd |-> parse_pct(adv[i].d2nd_raw)]]
        keyed  == [i \in 1..Len(df) |->
                     df[i] @@ [Key |-> build_key(df[i].campaignName, df[i].siteId)]]
        lookup == drop_duplicates(parsed)
    IN  left_merge(keyed, lookup)

\* clean_nulls: <<rows without a null critical column, number dropped>>.
clean_nulls(df) ==
    LET kept == SelectSeq(df, LAMBDA r : /\ r.roi_d7 # NaN
                                         /\ r.roi_d2nd # NaN
                                         /\ r.maxPreloads # NaN
                                         /\ r.fillRate # NaN)
    IN  <<kept, Len(df) - Len(kept)>>

\* add_segments
add_segments(df, kpi_d7, kpi_d2nd) ==
    [i \in 1..Len(df) |->
        df[i] @@ [segment     |-> segment_row(df[i].roi_d7, df[i].roi_d2nd,
                                              kpi_d7, kpi_d2nd),
                  progression |-> get_progression(df[i].roi_d7, df[i].roi_d2nd)]]

----------------------------------------------------------------------------
(* The pipeline run_optimization, one action per step, and the caller.     *)

\* app.py "Run Optimization": the call passes w_d7, w_d2nd,
\* optimization_type, report_duration and notes, which run_optimization
\* does not declare; Python raises TypeError before the body runs and the
\* handler shows it.
AppRunClicked ==
    /\ pc = "start"
    /\ cfg.caller = "app"
    /\ pc' = "TypeError"
    /\ UNCHANGED <<cfg, loaded, advertiser, internal, summary>>

\* run_optimization called with its six declared parameters: load, exclude
\* site types, merge advertiser KPIs.  The weights of the configuration
\* have no parameter to travel in; nothing inspects the targets.
MergeAdvertiserData ==
    /\ pc = "start"
    /\ cfg.caller = "direct"
    /\ internal' = merge_advertiser_data(exclude_site_types(loaded)[1], advertiser)
    /\ pc' = "merged"
    /\ UNCHANGED <<cfg, loaded, advertiser, summary>>

CleanNulls ==
    /\ pc = "merged"
    /\ internal' = clean_nulls(internal)[1]
    /\ pc' = "cleaned"
    /\ UNCHANGED <<cfg, loaded, advertiser, summary>>

AddSegments ==
    /\ pc = "cleaned"
    /\ internal' = add_segments(internal, cfg.kpi_d7, cfg.kpi_d2nd)
    /\ pc' = "segmented"
    /\ UNCHANGED <<cfg, loaded, advertiser, summary>>

Discard ==
    /\ pc = "segmented"
    /\ internal' = [i \in 1..Len(internal) |->
                      internal[i] @@ [discard |-> should_discard(internal[i])]]
    /\ pc' = "discarded"
    /\ UNCHANGED <<cfg, loaded, advertiser, summary>>

DailyCap ==
    /\ pc = "discarded"
    /\ internal' = [i \in 1..Len(internal) |->
                      internal[i] @@ [DailyCapSuggestion |->
                                         get_daily_cap_suggestion(internal[i])]]
    /\ pc' = "capped"
    /\ UNCHANGED <<cfg, loaded, advertiser, summary>>

\* Bid optimization, then the summary of the returned report.  On a table
\* left without rows DataFrame.apply returns the empty table itself, the
\* assignment of two names to its columns raises ValueError, and the run
\* ends without report or summary.
BidOptimization ==
    /\ pc = "capped"
    /\ IF internal = << >>
       THEN /\ pc' = "ValueError"
            /\ UNCHANGED <<internal, summary>>
       ELSE
       LET results == [i \in 1..Len(internal) |->
                          optimize_bid(internal[i], cfg.kpi_d7, cfg.kpi_d2nd)]
           output  == [i \in 1..Len(internal) |->
                          internal[i] @@ [Action         |-> results[i][1],
                                          RecommendedBid |-> results[i][2]]]
       IN  /\ pc' = "returned"
           /\ internal' = output
           /\ summary' =
                [total_rows    |-> Len(output),
                 excluded      |-> exclude_site_types(loaded)[2],
                 dropped_nulls |-> clean_nulls(merge_advertiser_data(
                                       exclude_site_types(loaded)[1],
                                       advertiser))[2],
                 actioned      |-> Cardinality({i \in 1..Len(output) :
                                       output[i].Action # None}),
                 disregarded   |-> Cardinality({i \in 1..Len(output) :
                                       output[i].Action = None}),
                 daily_cap     |-> Cardinality({i \in 1..Len(output) :
                                       output[i].DailyCapSuggestion # None}),
                 action_breakdown |->
                     [a \in {output[i].Action : i \in 1..Len(output)} \ {None} |->
                         Cardinality({i \in 1..Len(output) :
                                         output[i].Action = a})],
                 segment_breakdown |->
                     [g \in {output[i].segment : i \in 1..Len(output)} |->
                         Cardinality({i \in 1..Len(output) :
                                         output[i].segment = g})]]
    /\ UNCHANGED <<cfg, loaded, advertiser>>

----------------------------------------------------------------------------
(* Inputs.                                                                 *)

MaxBidDimes == 3
MaxMoneyUnits == 7

\* bidRate: whole dimes.
BidRates == {100 * k : k \in 1..MaxBidDimes}

\* effectiveBidFloor and highTier: quarter-dime steps from 0.075 $, so that
\* some are whole cents and some lie between two cents.
MoneyGrid == {50 + 25 * k : k \in 1..MaxMoneyUnits}

\* One internal row with the identity columns fixed.
Row(status, spend, preloads, fillRate, installs, floor, bid, tier) ==
    [campaignName |-> "alpha", siteId |-> 1, siteName |-> "Organic",
     status |-> status, spend |-> spend, preloads |-> preloads,
     maxPreloads |-> 1000, fillRate |-> fillRate, installs |-> installs,
     effectiveBidFloor |-> floor, bidRate |-> bid, highTier |-> tier]

\* KPI values of the rows, in 0.01 %.  With the targets below they put rows
\* exactly on the ends of the bands (score = target, 50 % below, 20 % and
\* 50 % above) where the doubles decide as the exact values do.
RoiD7 == {0, 100, 500, 1000, 2000}
RoiD2nd == {0, 300, 500, 1000, 1500, 2000}

\* <<roi_d7, roi_d2nd, kpi_d7, kpi_d2nd>> on the end of a band where the
\* doubles decide otherwise: score = target, pct_below = 0.50,
\* pct_below = 0.25, and a parsed value against an equal target.
BandEnds ==
    {<<900, 900, 1000, 500>>, <<800, 800, 700, 1200>>,
     <<100, 1850, 1000, 500>>, <<100, 1600, 700, 1200>>,
     <<100, 2600, 700, 1200>>, <<300, 1800, 700, 1200>>,
     <<1000, 211, 1000, 211>>}

\* The advertiser cell of a KPI value n: the percentage n / 100 above 1 %,
\* the fraction n / 10000 up to 1 % (n = 0 or n = 100), as parse_pct
\* tells the two notations apart.
RawCell(n) == IF n > 100 THEN <<"num", n>> ELSE <<"num", n \div 100>>

Config(kpi_d7, kpi_d2nd, w_d7, w_d2nd, caller) ==
    [kpi_d7 |-> kpi_d7, kpi_d2nd |-> kpi_d2nd, w_d7 |-> w_d7,
     w_d2nd |-> w_d2nd, caller |-> caller]

\* The state after clean_nulls of a run on a one-row table.
Cleaned(row, d7, d2nd, config) ==
    /\ pc = "cleaned"
    /\ cfg = config
    /\ loaded = <<row>>
    /\ advertiser = <<[campaignName |-> "alpha", siteId |-> 1,
                       d7_raw |-> RawCell(d7), d2nd_raw |-> RawCell(d2nd)]>>
    /\ internal = <<row @@ [Key |-> build_key(row.campaignName, row.siteId),
                            roi_d7 |-> d7, roi_d2nd |-> d2nd]>>
    /\ summary = None

\* Rows for the bid optimizer: every money column varies.  The floor 0.19 $
\* lies between bidRate * 0.90 and a bidRate of 0.20 $, so that the clamp
\* binds on a decrease of 10 %.
InitBid ==
    \E bid \in BidRates, floor \in {NaN, 190} \cup MoneyGrid,
       tier \in {NaN} \cup MoneyGrid, fill \in {50, 60, 65, 70, 85},
       installs \in {4, 5}, spend \in {50, 100},
       k \in (RoiD7 \X RoiD2nd \X {1000} \X {500})
              \cup (RoiD7 \X RoiD2nd \X {700} \X {1200}) \cup BandEnds :
        Cleaned(Row("active", spend, 200, fill, installs, floor, bid, tier),
                k[1], k[2], Config(k[3], k[4], 80, 20, "direct"))

NextRow == AddSegments \/ Discard \/ DailyCap \/ BidOptimization

SpecBid == InitBid /\ [][NextRow]_vars

\* The state at the start of a run on a one-row table whose advertiser row
\* has the same key.
Start(row, d7, d2nd, config) ==
    /\ pc = "start"
    /\ cfg = config
    /\ loaded = <<row>>
    /\ advertiser = <<[campaignName |-> "alpha", siteId |-> 1,
                       d7_raw |-> RawCell(d7), d2nd_raw |-> RawCell(d2nd)]>>
    /\ internal = << >>
    /\ summary = None

\* KPI targets: the two used throughout, and none (no validation rejects 0).
Targets == {<<1000, 500>>, <<700, 1200>>, <<0, 0>>}

\* Weights a caller may ask for: the default, two others, one not summing
\* to 100 %.
Weights == {<<80, 20>>, <<50, 50>>, <<80, 30>>}

\* Whole runs on one row: every column the discard policy and the daily-cap
\* advisor read varies, and so does the configuration.
Init ==
    \E status \in {"active", "Paused"}, spend \in {50, 100, 1000, 1500, 2000},
       preloads \in {99, 100}, fill \in {50, 60, 85}, installs \in {NaN, 4, 5},
       floor \in {NaN, 150, 200},
       k \in {<<d7, d2nd, t[1], t[2]>> :
                 d7 \in RoiD7, d2nd \in RoiD2nd, t \in Targets} \cup BandEnds,
       w \in Weights, caller \in {"direct", "app"} :
        /\ caller = "app" => (w[1] + w[2] = 100 /\ k[3] > 0 /\ k[4] > 0)
        /\ Start(Row(status, spend, preloads, fill, installs, floor, 200, NaN),
                 k[1], k[2], Config(k[3], k[4], w[1], w[2], caller))

NextRun == AppRunClicked \/ MergeAdvertiserData \/ CleanNulls \/ NextRow

Spec == Init /\ [][NextRun]_vars

----------------------------------------------------------------------------
(* Runs on tables of several rows, for the merge.                          *)

MaxRows == 2
MaxAdvRows == 2

\* Sequences over S of length lo..hi.
SeqsOf(S, lo, hi) == UNION {[1..n -> S] : n \in lo..hi}

\* Internal rows: two keys (one needing strip()), and per key a plain row,
\* a row of an excluded site type and a row without maxPreloads.
InternalRows ==
    {[Row("active", 1500, 200, 50, 5, NaN, 200, NaN)
        EXCEPT !.campaignName = k[1], !.siteId = k[2],
               !.siteName = v[1], !.maxPreloads = v[2]] :
        k \in {<<"alpha", 1>>, <<" alpha ", 2>>},
        v \in {<<"Organic", 1000>>, <<"OM Push", 1000>>, <<"Organic", NaN>>}}

\* Advertiser rows: the same two keys, and three KPI pairs: whole
\* percentages, fractions, and cells that do not parse.
AdvertiserRows ==
    {[campaignName |-> "alpha", siteId |-> site,
      d7_raw |-> raw[1], d2nd_raw |-> raw[2]] :
        site \in {1, 2},
        raw \in {<< <<"num", 1000>>, <<"num", 2000>> >>,
                 << <<"num", 5>>, <<"num", 50>> >>,
                 << <<"nan", 0>>, <<"text", 0>> >>}}

InitMerge ==
    /\ pc = "start"
    /\ cfg = Config(1000, 500, 80, 20, "direct")
    /\ loaded \in SeqsOf(InternalRows, 1, MaxRows)
    /\ advertiser \in SeqsOf(AdvertiserRows, 0, MaxAdvRows)
    /\ internal = << >>
    /\ summary = None

NextMerge == MergeAdvertiserData \/ CleanNulls \/ NextRow

SpecMerge == InitMerge /\ [][NextMerge]_vars

----------------------------------------------------------------------------
(* Properties.                                                             *)

\* The rows of the working table.
Rows == {internal[i] : i \in 1..Len(internal)}

\* The bid the row's branch computes before the floor clamp: the branches
\* run on the row without its floor.
BranchBid(r) ==
    bid_branches([r EXCEPT !.effectiveBidFloor = NaN], cfg.kpi_d7, cfg.kpi_d2nd)[2]

\* C1: floor invariant of optimize_bid.  Whenever the floor is present and a
\* bid is recommended, the bid is at least the floor; and when the branch's
\* bid was below the floor, the bid is the floor and the label is
\* "Meet bid floor".
C1_FloorInvariant ==
    pc = "returned" =>
        \A r \in Rows :
            (r.effectiveBidFloor # NaN /\ r.RecommendedBid # NaN) =>
                /\ r.RecommendedBid >= r.effectiveBidFloor
                /\ BranchBid(r) < r.effectiveBidFloor =>
                       /\ r.RecommendedBid = r.effectiveBidFloor
                       /\ r.Action = "Meet bid floor"

\* The row came out of the good-progression branch or of the green branch
\* with a recommendation: the two branches that increase.
IncreaseBranch(r) ==
    /\ ~r.discard
    /\ ~at_floor(r)
    /\ \/ r.progression = "good" /\ r.fillRate < 60 /\ r.roi_d7 > 0
       \/ r.progression # "poor" /\ r.segment = "green" /\ OrZero(r.installs) >= 5

\* The override exception of the tier cap.
TierException(r) == r.bidRate > r.highTier /\ r.fillRate < 70

\* C2: tier invariant of optimize_bid.  With highTier present and outside
\* the override exception, what the good-progression and green branches
\* return is at most highTier, the floor clamp included.
C2_TierInvariant ==
    pc = "returned" =>
        \A r \in Rows :
            (r.highTier # NaN /\ ~TierException(r) /\ IncreaseBranch(r)) =>
                r.RecommendedBid <= r.highTier

\* C3: the two no-action guards come first.  A discarded row, and a row
\* whose bid is at or below its floor, get no action and no bid, whatever
\* the other columns hold.
C3_GuardsFirst ==
    pc = "returned" =>
        \A r \in Rows :
            (r.discard \/ at_floor(r)) =>
                r.Action = None /\ r.RecommendedBid = NaN

\* C3 witness: a row at its floor that the good-progression branch would
\* have increased, left alone.
C3_Witness ==
    /\ pc = "returned"
    /\ \E r \in Rows :
          /\ at_floor(r) /\ ~r.discard
          /\ r.progression = "good" /\ r.fillRate < 60
          /\ BranchBid(r) > r.bidRate
          /\ r.Action = None

\* The steps after which the rows carry a segment, a discard flag, a
\* daily-cap suggestion.
Segmented == pc \in {"segmented", "discarded", "capped", "returned"}
Discarded == pc \in {"discarded", "capped", "returned"}
Capped == pc \in {"capped", "returned"}

\* Score of a row and target of the run as the specification defines them,
\* with the weights of the run's configuration (both times 1e6).
ClaimScore(r) == cfg.w_d7 * r.roi_d7 + cfg.w_d2nd * r.roi_d2nd
ClaimTarget == cfg.w_d7 * cfg.kpi_d7 + cfg.w_d2nd * cfg.kpi_d2nd

\* The segment the specification assigns: green at or above target, red for
\* two zero KPIs, then the bands of pctBelow = (target - score) / target.
ClaimSegment(r) ==
    LET score  == ClaimScore(r)
        target == ClaimTarget
    IN  IF score >= target THEN "green"
        ELSE IF r.roi_d7 = 0 /\ r.roi_d2nd = 0 THEN "red"
        ELSE IF 2 * (target - score) <= target THEN "yellow"
        ELSE IF target - score < target THEN "orange"
        ELSE "red"

\* C4: with a positive target, segment_row gives green iff score >= target,
\* else red for two zero KPIs, else yellow for pctBelow <= 0.50, orange for
\* 0.50 < pctBelow < 1.0 and red from 1.0; so no row at or above target is
\* below green.
C4_SegmentBands ==
    Segmented =>
        \A r \in Rows :
            ClaimTarget > 0 =>
                /\ r.segment = ClaimSegment(r)
                /\ ClaimScore(r) >= ClaimTarget => r.segment = "green"

\* C5: whale protection.  Two zero KPIs give segment red whatever the
\* targets, and a zero primary KPI gives progression flat whatever the
\* secondary KPI.
C5_WhaleProtection ==
    Segmented =>
        \A r \in Rows :
            /\ r.roi_d7 = 0 => r.progression = "flat"
            /\ (r.roi_d7 = 0 /\ r.roi_d2nd = 0) => r.segment = "red"

\* The discard rules of the specification as one condition: neither
\* override applies, and one of the three discard rules does.  A missing
\* number counts as 0.
ClaimDiscard(r) ==
    LET installs  == IF r.installs = NaN THEN 0 ELSE r.installs
        fillRate  == IF r.fillRate = NaN THEN 0 ELSE r.fillRate
        green     == r.segment = "green"
        override1 == green /\ installs >= 5
        override2 == /\ r.progression = "good"
                     /\ fillRate < 60
                     /\ r.roi_d7 > 0
                     /\ r.spend >= 100
        paused    == r.status \in {"paused", "Paused", "PAUSED"}
    IN  /\ ~override1
        /\ ~override2
        /\ \/ r.spend < 100
           \/ r.preloads < 100
           \/ paused /\ ~green

\* C6: should_discard is the first-true-wins evaluation of its six rules,
\* with missing installs and missing fillRate read as 0; so a green row
\* with spend < 100 and installs < 5 is discarded.
C6_DiscardRules ==
    Discarded =>
        \A r \in Rows :
            /\ r.discard = ClaimDiscard(r)
            /\ should_discard([r EXCEPT !.fillRate = NaN])
                   = ClaimDiscard([r EXCEPT !.fillRate = 0])
            /\ (r.segment = "green" /\ r.spend < 100
                   /\ (r.installs = NaN \/ r.installs < 5)) => r.discard

\* C6 witness: a green row with spend < 100 and no installs recorded,
\* discarded by the spend rule.
C6_Witness ==
    /\ Discarded
    /\ \E r \in Rows :
          /\ r.segment = "green"
          /\ r.spend < 100
          /\ r.installs = NaN
          /\ r.discard

\* round(spend / 30 * 0.50, 2) printed with two decimals: spend / 60
\* dollars to the nearest cent.
ClaimCapAmount(spend) ==
    LET cents == (10 * spend + 3) \div 6
    IN  ToString(cents \div 100) \o "."
            \o (IF cents % 100 < 10 THEN "0" ELSE "") \o ToString(cents % 100)

\* The daily-cap suggestion of the specification, from spend, bidRate,
\* effectiveBidFloor and the two KPIs only.
ClaimCap(r) ==
    IF r.spend <= 1000 THEN None
    ELSE IF r.roi_d7 = 0 /\ r.roi_d2nd = 0 THEN "Suggest pause"
    ELSE IF /\ r.effectiveBidFloor # NaN
            /\ r.bidRate <= r.effectiveBidFloor
            /\ (r.roi_d7 > 0 \/ r.roi_d2nd > 0)
         THEN "Add daily cap $" \o ClaimCapAmount(r.spend)
    ELSE None

\* Scenario E of the specification: spend 1500 at a floor of 0.50 $ with a
\* primary KPI of 2 %.
ScenarioE ==
    [spend |-> 1500, effectiveBidFloor |-> 500, bidRate |-> 500,
     roi_d7 |-> 200, roi_d2nd |-> 0]

\* C7: get_daily_cap_suggestion gives no suggestion up to a spend of 1000;
\* above it "Suggest pause" for two zero KPIs, "Add daily cap $X.XX" with
\* X.XX = round(spend / 30 * 0.50, 2) for a row at its floor with a positive
\* KPI, and otherwise none; discard, segment, progression and the bid action
\* play no part.
C7_DailyCap ==
    /\ Capped => \A r \in Rows : r.DailyCapSuggestion = ClaimCap(r)
    /\ get_daily_cap_suggestion(ScenarioE) = "Add daily cap $25.00"

\* C7 witness: a discarded row above 1000 of spend, at its floor and with a
\* positive KPI, still advised a cap.
C7_Witness ==
    /\ Capped
    /\ \E r \in Rows :
          /\ r.discard
          /\ r.spend = 2000
          /\ r.DailyCapSuggestion = "Add daily cap $33.33"

\* C8: the run takes the caller's weights, and segments with
\* score = wP * primaryKPI + wS * secondaryKPI against
\* target = wP * targetPrimary + wS * targetSecondary for every pair of
\* weights summing to 1.
C8_CallerWeights ==
    /\ pc # "TypeError"
    /\ (Segmented /\ cfg.w_d7 + cfg.w_d2nd = 100 /\ ClaimTarget > 0) =>
           \A r \in Rows : r.segment = ClaimSegment(r)

\* A configuration the specification accepts.
ValidConfig ==
    /\ cfg.w_d7 + cfg.w_d2nd = 100
    /\ cfg.kpi_d7 > 0
    /\ cfg.kpi_d2nd > 0

\* C9: a run with weights not summing to 1 or a non-positive target ends in
\* ConfigurationError at its start: no step of the pipeline runs on its
\* rows and no summary is produced.
C9_ConfigValidation ==
    ~ValidConfig => (pc \in {"start", "ConfigurationError"} /\ summary = None)

\* Index of the first advertiser row with the key, 0 when there is none.
FirstWithKey(key) ==
    LET S == {j \in 1..Len(advertiser) :
                 build_key(advertiser[j].campaignName, advertiser[j].siteId) = key}
    IN  IF S = {} THEN 0 ELSE CHOOSE j \in S : \A k \in S : j <= k

\* C10: merge_advertiser_data is a left join against the advertiser table
\* deduplicated by key, first occurrence kept: as many rows out as internal
\* rows in, each with the KPI pair of the first advertiser row of its key,
\* or with null KPIs when no advertiser row has its key; clean_nulls then
\* removes the rows with null KPIs before segmentation.
C10_LeftJoinFirst ==
    /\ pc = "merged" =>
          LET df == exclude_site_types(loaded)[1]
          IN  /\ Len(internal) = Len(df)
              /\ \A i \in 1..Len(df) :
                    LET key == build_key(df[i].campaignName, df[i].siteId)
                        j   == FirstWithKey(key)
                    IN  /\ i <= Len(internal)
                        /\ internal[i].Key = key
                        /\ internal[i].campaignName = df[i].campaignName
                        /\ internal[i].siteId = df[i].siteId
                        /\ internal[i].maxPreloads = df[i].maxPreloads
                        /\ IF j = 0
                           THEN /\ internal[i].roi_d7 = NaN
                                /\ internal[i].roi_d2nd = NaN
                           ELSE /\ internal[i].roi_d7
                                      = parse_pct(advertiser[j].d7_raw)
                                /\ internal[i].roi_d2nd
                                      = parse_pct(advertiser[j].d2nd_raw)
    /\ pc \notin {"start", "merged", "TypeError"} =>
          \A r \in Rows : r.roi_d7 # NaN /\ r.roi_d2nd # NaN

\* C10 witness: two advertiser rows share the key of an internal row and
\* disagree on the primary KPI; the merged row carries the first one's.
C10_Witness ==
    /\ pc = "merged"
    /\ \E i \in 1..Len(internal), j, k \in 1..Len(advertiser) :
          /\ j < k
          /\ build_key(advertiser[j].campaignName, advertiser[j].siteId)
                 = internal[i].Key
          /\ build_key(advertiser[k].campaignName, advertiser[k].siteId)
                 = internal[i].Key
          /\ parse_pct(advertiser[j].d7_raw) # parse_pct(advertiser[k].d7_raw)
          /\ internal[i].roi_d7 = parse_pct(advertiser[j].d7_raw)
          /\ Len(internal) = Len(exclude_site_types(loaded)[1])

\* Half-up rounding to whole cents of a money value in mills, and of the
\* product bid * (m / 100): a value halfway between two cents goes up.
HalfUp(v) == 10 * ((v + 5) \div 10)
HalfUpProduct(bid, m) == 10 * ((bid * m + 500) \div 1000)

\* The percentages a label can report.
LabelPcts == {10, 15, 20, 25, 30}

\* The row's action is the increase, the decrease, by n %.
IsIncrease(r, n) == r.Action = "Increase bid " \o ToString(n) \o "%"
IsDecrease(r, n) == r.Action = "Decrease bid " \o ToString(n) \o "%"

\* C11: every bid optimize_bid returns is rounded half-up to 2 decimals,
\* after each transformation of the chain: the percentage change, then the
\* tier cap, then the floor clamp.
C11_HalfUpRounding ==
    pc = "returned" =>
        \A r \in Rows :
            /\ r.Action = "Meet bid floor" =>
                   r.RecommendedBid = HalfUp(r.effectiveBidFloor)
            /\ \A n \in LabelPcts :
                   /\ IsDecrease(r, n) =>
                          r.RecommendedBid = HalfUpProduct(r.bidRate, 100 - n)
                   /\ IsIncrease(r, n) =>
                          r.RecommendedBid =
                             IF r.highTier = NaN
                             THEN HalfUpProduct(r.bidRate, 100 + n)
                             ELSE IF r.bidRate > r.highTier /\ r.fillRate < 70
                             THEN HalfUpProduct(r.bidRate, 115)
                             ELSE HalfUp(Min(HalfUpProduct(r.bidRate, 100 + n),
                                             r.highTier))

\* C16: the label's direction is the bid's direction.  An "Increase bid N%"
\* comes with a recommended bid of at least bidRate, a "Decrease bid N%"
\* with one of at most bidRate, also when bidRate exceeds highTier.
C16_LabelDirection ==
    pc = "returned" =>
        \A r \in Rows : \A n \in LabelPcts :
            /\ IsIncrease(r, n) => r.RecommendedBid >= r.bidRate
            /\ IsDecrease(r, n) => r.RecommendedBid <= r.bidRate

\* The floor clamp of the specification on a branch's result: the floor
\* and "Meet bid floor" when the bid is below a present floor.
ClaimClamp(r, action, bid) ==
    IF r.effectiveBidFloor # NaN /\ bid < r.effectiveBidFloor
    THEN <<"Meet bid floor", RoundMoney(r.effectiveBidFloor)>>
    ELSE <<action, bid>>

\* The row passed the two guards.
PastGuards(r) == ~r.discard /\ ~at_floor(r)

\* The row is taken by the good-progression branch.
GoodBranch(r) ==
    PastGuards(r) /\ r.progression = "good" /\ r.fillRate < 60 /\ r.roi_d7 > 0

\* The result the specification gives the good-progression branch.
ClaimGood(r) ==
    LET pct    == IF r.roi_d2nd >= 2 * r.roi_d7 THEN 15 ELSE 10
        raised == RoundProduct(r.bidRate, 100 + pct)
        capped == IF r.highTier = NaN THEN <<raised, pct>>
                  ELSE IF r.bidRate > r.highTier
                  THEN <<RoundProduct(r.bidRate, 115), 15>>
                  ELSE <<RoundMoney(Min(raised, r.highTier)), pct>>
    IN  ClaimClamp(r, "Increase bid " \o ToString(capped[2]) \o "%", capped[1])

\* C12: good-progression branch.  A row past the guards with progression
\* good, fillRate < 0.60 and primaryKPI > 0 is increased whatever its
\* segment: by 15 % if secondaryKPI / primaryKPI >= 2.0, else by 10 %,
\* capped at highTier; with bidRate above highTier the bid is
\* bidRate * 1.15 and the label "Increase bid 15%"; the floor clamp is last.
C12_GoodProgression ==
    pc = "returned" =>
        \A r \in Rows :
            GoodBranch(r) => <<r.Action, r.RecommendedBid>> = ClaimGood(r)

\* C12 witness: an orange row in the good-progression branch with its bid
\* above highTier, raised by 15 % past the tier.
C12_Witness ==
    /\ pc = "returned"
    /\ \E r \in Rows :
          /\ GoodBranch(r)
          /\ r.segment = "orange"
          /\ r.highTier # NaN
          /\ r.bidRate > r.highTier
          /\ r.Action = "Increase bid 15%"
          /\ r.RecommendedBid > r.bidRate

\* The row is taken by the poor-progression branch.
PoorBranch(r) == PastGuards(r) /\ r.progression = "poor"

\* The result the specification gives the poor-progression branch: the
\* secondary KPI alone is green when it reaches its own target.
ClaimPoor(r) ==
    IF r.spend < 100 THEN <<None, NaN>>
    ELSE IF r.roi_d2nd >= cfg.kpi_d2nd THEN <<None, NaN>>
    ELSE ClaimClamp(r, "Decrease bid 10%", RoundProduct(r.bidRate, 90))

\* C13: poor-progression branch.  A row past the guards with progression
\* poor gets nothing below a spend of 100 and nothing when its secondary KPI
\* alone is green against targetSecondary; otherwise "Decrease bid 10%" with
\* bidRate * 0.90, floor-clamped.  Its weighted segment plays no part, and
\* it is never increased.
C13_PoorProgression ==
    pc = "returned" =>
        \A r \in Rows :
            PoorBranch(r) =>
                /\ <<r.Action, r.RecommendedBid>> = ClaimPoor(r)
                /\ \A n \in LabelPcts : ~IsIncrease(r, n)

\* The row is taken by the green branch.
GreenBranch(r) ==
    /\ PastGuards(r)
    /\ ~(r.progression = "good" /\ r.fillRate < 60 /\ r.roi_d7 > 0)
    /\ r.progression # "poor"
    /\ r.segment = "green"

\* The tier cap on an increase by pct %, the label keeping the nominal
\* percentage; with override, a bid above highTier with fillRate < 0.70 is
\* raised by 15 % instead and labelled so.  <<bid, percentage of the label>>.
ClaimTierCap(r, pct, override) ==
    LET raised == RoundProduct(r.bidRate, 100 + pct)
    IN  IF r.highTier = NaN THEN <<raised, pct>>
        ELSE IF override /\ r.bidRate > r.highTier /\ r.fillRate < 70
        THEN <<RoundProduct(r.bidRate, 115), 15>>
        ELSE <<RoundMoney(Min(raised, r.highTier)), pct>>

\* The result of the green branch, with pctAbove = (score - target) / target,
\* without or with the override of the tier cap.
ClaimGreen(r, override) ==
    LET above  == ClaimScore(r) - ClaimTarget
        pct    == IF r.fillRate > 60 THEN 15
                  ELSE IF 4 * above <= ClaimTarget THEN 10
                  ELSE IF 2 * above <= ClaimTarget THEN 20
                  ELSE 30
        capped == ClaimTierCap(r, pct, override)
    IN  IF r.installs = NaN \/ r.installs < 5 THEN <<None, NaN>>
        ELSE ClaimClamp(r, "Increase bid " \o ToString(capped[2]) \o "%",
                        capped[1])

\* Scenario D of the specification: a green row with 10 installs, fillRate
\* 0.85, bidRate 1.00 $ and highTier 1.10 $.
ScenarioD ==
    [discard |-> FALSE, effectiveBidFloor |-> NaN, bidRate |-> 1000,
     highTier |-> 1100, fillRate |-> 85, installs |-> 10, spend |-> 500,
     segment |-> "green", progression |-> "flat",
     roi_d7 |-> 1000, roi_d2nd |-> 1000]

\* C14 as stated: green branch.  A green row past the guards and past the
\* two progression branches gets nothing below 5 installs; else an increase
\* of nominally 15 % for fillRate > 0.60, and for fillRate <= 0.60 of 10 %
\* up to pctAbove 0.25, 20 % up to 0.50 and 30 % beyond; the bid is capped
\* at highTier, then floor-clamped, and the label reports the nominal
\* percentage (Scenario D: 1.10 $ labelled "Increase bid 15%").
C14_GreenBranchAsStated ==
    /\ pc = "returned" =>
          \A r \in Rows :
              GreenBranch(r) =>
                  <<r.Action, r.RecommendedBid>> = ClaimGreen(r, FALSE)
    /\ optimize_bid(ScenarioD, 1000, 500) = <<"Increase bid 15%", 1100>>

\* C14 amended: green branch.  As stated, except that a green row with
\* fillRate < 0.70 whose bidRate already exceeds its highTier is not
\* capped: its bid is bidRate * 1.15 under the label "Increase bid 15%",
\* whatever the nominal percentage; the floor clamp follows.
C14_GreenBranch ==
    /\ pc = "returned" =>
          \A r \in Rows :
              GreenBranch(r) =>
                  <<r.Action, r.RecommendedBid>> = ClaimGreen(r, TRUE)
    /\ optimize_bid(ScenarioD, 1000, 500) = <<"Increase bid 15%", 1100>>

\* C14 witness: a green row with fillRate <= 0.60, pctAbove beyond 0.50
\* (nominally 30 %) and a bid above its highTier, raised by 15 % past the
\* tier under the label "Increase bid 15%".
C14_Witness ==
    /\ pc = "returned"
    /\ \E r \in Rows :
          /\ GreenBranch(r)
          /\ r.installs >= 5
          /\ r.fillRate <= 60
          /\ 2 * (ClaimScore(r) - ClaimTarget) > ClaimTarget
          /\ r.highTier # NaN
          /\ r.bidRate > r.highTier
          /\ r.Action = "Increase bid 15%"
          /\ r.RecommendedBid = RoundProduct(r.bidRate, 115)
          /\ r.RecommendedBid > r.highTier

\* The row is taken by one of the three decrease branches.
DecreaseBranch(r) ==
    /\ PastGuards(r)
    /\ ~(r.progression = "good" /\ r.fillRate < 60 /\ r.roi_d7 > 0)
    /\ r.progression # "poor"
    /\ r.segment \in {"yellow", "orange", "red"}

\* The result the specification gives the decrease branches, with
\* pctBelow = (target - score) / target; highTier plays no part.
ClaimDecrease(r) ==
    LET below == ClaimTarget - ClaimScore(r)
        pct   == IF r.segment = "yellow"
                 THEN (IF 4 * below <= ClaimTarget THEN 10 ELSE 15)
                 ELSE IF r.segment = "orange"
                 THEN (IF 4 * below <= 3 * ClaimTarget THEN 20 ELSE 25)
                 ELSE 30
    IN  ClaimClamp(r, "Decrease bid " \o ToString(pct) \o "%",
                   RoundProduct(r.bidRate, 100 - pct))

\* C15: decrease branches.  Past the guards and the two progression
\* branches a yellow row is decreased by 10 % up to pctBelow 0.25 and by
\* 15 % beyond, an orange row by 20 % up to pctBelow 0.75 and by 25 %
\* beyond, a red row by 30 %; the bid is bidRate * (1 - pct), floor-clamped
\* and not tier-capped, under the label "Decrease bid N%" unless the clamp
\* replaced it.
C15_DecreaseBranches ==
    pc = "returned" =>
        \A r \in Rows :
            DecreaseBranch(r) =>
                <<r.Action, r.RecommendedBid>> = ClaimDecrease(r)

=============================================================================
